---- MODULE Spec2Model ----
(***************************************************************************)
(* Model of the agent control loop of the AI Product Manager Agent:        *)
(* AgentOrchestrator.execute_task, Executor.execute_plan, SelfVerifier,    *)
(* ContextBudgetManager / WorkingMemory and CompactionService, as given in *)
(* docs/architecture/geisinger-module-design.md, and the tier classifier   *)
(* and approval flow of                                                    *)
(* docs/architecture/refined-hitl-interaction-architecture.md, and of the  *)
(* frontend's useAgentStream hook and DualDocumentUpload component.        *)
(*                                                                         *)
(* The specifications share the variables:                                 *)
(*   Spec        the execute_task loop (Gather, Plan, Act, Verify, Decide) *)
(*   LiveSpec    Spec with the loop running on until it has ended          *)
(*   ExecSpec    Executor.execute_plan applied to bounded plans            *)
(*   VerifySpec  SelfVerifier.verify applied to every battery of checks    *)
(*   BudgetSpec  call sequences on ContextBudgetManager and WorkingMemory  *)
(*   HitlSpec    classification of a plan and the approval conversation    *)
(*   CompactSpec compact_working_memory applied to bounded memories        *)
(*   AdaptSpec   Planner._adapt_plan after a step configuration failed     *)
(*   ToolSpec    call sequences on ToolExecutor.execute and its cache      *)
(*   WriterSpec  two concurrent writers on one ContextBudgetManager        *)
(*   StreamSpec  the useAgentStream hook of the frontend and its streams   *)
(*   UploadSpec  the two dropzones of the DualDocumentUpload component     *)
(***************************************************************************)
EXTENDS Integers, Sequences, FiniteSets, TLC

VARIABLES
    state,              \* position of execute_task in its loop
    iteration,          \* loop variable of execute_task
    plan,               \* plan of the current iteration
    execution_result,   \* outcome of executor.execute_plan in this iteration
    verification,       \* VerificationResult of this iteration
    response,           \* AgentResponse returned by execute_task
    trace,              \* context.trace
    approval_response,  \* decision received from the approval interface
    gather_error,       \* error the Gather phase ran into, "NONE" if none
    x_steps,            \* ExecSpec: plan steps handed to execute_plan
    x_outcomes,         \* ExecSpec: what each tool call of the plan does
    x_result,           \* ExecSpec: what execute_plan produced
    v_checks,           \* VerifySpec: the six check results
    v_more,             \* VerifySpec: plan.has_more_steps
    v_result,           \* VerifySpec: the VerificationResult
    v_second,           \* VerifySpec: the VerificationResult of a second run
    used,               \* ContextBudgetManager.used
    last_check,         \* last check_budget call and its BudgetCheckResult
    wm_tokens,          \* WorkingMemory.count_tokens()
    mem_phase,          \* BudgetSpec: "ITERATION" or "GATHER" (a Gather phase starts)
    compaction_attempts,\* calls of _trigger_compaction since the last Gather
    crossed_80,         \* used rose above 80% of total_budget since the last Gather
    h_state,            \* approval flow: position in the interaction flow
    h_plan,             \* approval flow: the plan proposed to the user
    h_tier,             \* approval flow: tier computed by classify_action
    h_response,         \* approval flow: ApprovalResponse of request_approval
    h_executed,         \* approval flow: iterations of the plans handed to the executor
    h_denials,          \* approval flow: denials logged by handle_denial
    c_memory,           \* CompactSpec: the working memory handed to compaction
    c_result,           \* CompactSpec: what compact_working_memory produced
    a_state,            \* AdaptSpec: where execute_task stands after re-planning
    a_current,          \* AdaptSpec: context.current_plan, whose step failed
    a_failed,           \* AdaptSpec: step configurations that failed in this task
    a_alternatives,     \* AdaptSpec: what _find_alternative_approaches returned
    a_plan,             \* AdaptSpec: the plan _adapt_plan returned
    t_cache,            \* ToolSpec: ToolExecutor.result_cache, entry per cache key
    t_now,              \* ToolSpec: the time, in units of the cache's time-to-live
    t_call,              \* ToolSpec: the last call of ToolExecutor.execute and its outcome
    w_used,             \* WriterSpec: ContextBudgetManager.used of the session
    w_pc,               \* WriterSpec: per writer, the call it makes next
    w_request,          \* WriterSpec: per writer, the category and size it asks for
    w_check,             \* WriterSpec: per writer, its check_budget call and result
    s_messages,         \* useAgentStream: messages
    s_isLoading,        \* useAgentStream: isLoading
    s_error,            \* useAgentStream: error
    s_currentThinking,  \* useAgentStream: number of events in currentThinking
    s_ref,              \* useAgentStream: eventSourceRef.current, 0 for null
    s_streams,          \* per sendMessage call, its EventSource and handler closure
    s_sent,             \* number of sendMessage calls so far
    s_running,           \* messages the agent service is still processing
    u_state,            \* DualDocumentUpload: inputUploadState, blueprintUploadState
    u_reading,          \* per dropzone, handlers awaiting file.text()
    u_inflight,         \* per dropzone, handlers awaiting the upload request
    u_timers,           \* per dropzone, pending setTimeout resets
    u_drops             \* per dropzone, files dropped so far

orch_vars == <<state, iteration, plan, execution_result, verification, response,
               trace, approval_response, gather_error>>
exec_vars == <<x_steps, x_outcomes, x_result>>
verify_vars == <<v_checks, v_more, v_result, v_second>>
budget_vars == <<used, last_check, wm_tokens, mem_phase, compaction_attempts,
                 crossed_80>>
hitl_vars == <<h_state, h_plan, h_tier, h_response, h_executed, h_denials>>
compact_vars == <<c_memory, c_result>>
adapt_vars == <<a_state, a_current, a_failed, a_alternatives, a_plan>>
tool_vars == <<t_cache, t_now, t_call>>
writer_vars == <<w_used, w_pc, w_request, w_check>>
stream_vars == <<s_messages, s_isLoading, s_error, s_currentThinking, s_ref,
                 s_streams, s_sent, s_running>>
upload_vars == <<u_state, u_reading, u_inflight, u_timers, u_drops>>

vars ==
    <<orch_vars, exec_vars, verify_vars, budget_vars, hitl_vars, compact_vars,
      adapt_vars, tool_vars, writer_vars, stream_vars, upload_vars>>

not_orch_vars ==
    <<exec_vars, verify_vars, budget_vars, hitl_vars, compact_vars,
      adapt_vars, tool_vars, writer_vars, stream_vars, upload_vars>>

not_exec_vars ==
    <<orch_vars, verify_vars, budget_vars, hitl_vars, compact_vars,
      adapt_vars, tool_vars, writer_vars, stream_vars, upload_vars>>

not_verify_vars ==
    <<orch_vars, exec_vars, budget_vars, hitl_vars, compact_vars, adapt_vars,
      tool_vars, writer_vars, stream_vars, upload_vars>>

not_budget_vars ==
    <<orch_vars, exec_vars, verify_vars, hitl_vars, compact_vars, adapt_vars,
      tool_vars, writer_vars, stream_vars, upload_vars>>

not_hitl_vars ==
    <<orch_vars, exec_vars, verify_vars, budget_vars, compact_vars,
      adapt_vars, tool_vars, writer_vars, stream_vars, upload_vars>>

not_compact_vars ==
    <<orch_vars, exec_vars, verify_vars, budget_vars, hitl_vars, adapt_vars,
      tool_vars, writer_vars, stream_vars, upload_vars>>

not_adapt_vars ==
    <<orch_vars, exec_vars, verify_vars, budget_vars, hitl_vars, compact_vars,
      tool_vars, writer_vars, stream_vars, upload_vars>>

not_tool_vars ==
    <<orch_vars, exec_vars, verify_vars, budget_vars, hitl_vars, compact_vars,
      adapt_vars, writer_vars, stream_vars, upload_vars>>

not_writer_vars ==
    <<orch_vars, exec_vars, verify_vars, budget_vars, hitl_vars, compact_vars,
      adapt_vars, tool_vars, stream_vars, upload_vars>>

not_stream_vars ==
    <<orch_vars, exec_vars, verify_vars, budget_vars, hitl_vars, compact_vars,
      adapt_vars, tool_vars, writer_vars, upload_vars>>

not_upload_vars ==
    <<orch_vars, exec_vars, verify_vars, budget_vars, hitl_vars, compact_vars,
      adapt_vars, tool_vars, writer_vars, stream_vars>>

(***************************************************************************)
(* Bounds of the model                                                     *)
(***************************************************************************)
MaxConfigs == 3         \* step configurations a task can choose from (AdaptSpec)
MaxClock == 3           \* latest time a tool call is made at (ToolSpec)
CacheTtl == 2           \* tool_spec.cache_ttl of the cacheable tools (ToolSpec)
MaxDrops == 2           \* files dropped on one dropzone (UploadSpec)
MaxSends == 2           \* sendMessage calls of one chat (StreamSpec)
MaxThinking == 1        \* thinking events of one stream (StreamSpec)
MaxPlanSteps == 1       \* longest plan the Planner emits under Spec
MaxSteps == 2           \* longest plan handed to execute_plan under ExecSpec
MaxDeviant == 1         \* checks per battery that differ from passed/non-critical (Spec)
MaxUsed == 260000       \* cap on ContextBudgetManager.used (BudgetSpec)
MaxWmTokens == 60000    \* cap on the working memory token count (BudgetSpec)
MaxAttempts == 2        \* cap on the compaction attempts counted per iteration
MaxReplans == 1         \* cap on the plans a user's modifications lead to
MaxItems == 3           \* items of the working memory handed to compaction

(***************************************************************************)
(* Program constants                                                       *)
(***************************************************************************)
max_iterations == 10
NumChecks == 6
confidence_threshold == 70   \* agent.confidence_threshold: 0.7, in percent
total_budget == 200000
wm_max_tokens == 50000
compaction_target == 10000

(***************************************************************************)
(* SelfVerifier.verify                                                     *)
(***************************************************************************)
\* the six checks, in the order verify appends them
CheckNames == <<"policy_compliance", "completeness", "consistency", "quality",
                "confidence", "safety">>

Verdicts == [passed : BOOLEAN, critical : BOOLEAN]

\* confidence scores in percent: below, at and above the threshold
Scores == {50, confidence_threshold, 90}

\* _assess_confidence: the confidence check passes exactly when its score
\* reaches the configured threshold; whether it is critical is left open
assess_confidence(passed, critical) ==
    {[name |-> CheckNames[5], passed |-> passed, critical |-> critical, score |-> sc] :
        sc \in {x \in Scores : passed <=> x >= confidence_threshold}}

MkChecks(f, confidence_check) ==
    [i \in 1..NumChecks |->
        IF i = 5 THEN confidence_check
        ELSE [name |-> CheckNames[i], passed |-> f[i].passed,
              critical |-> f[i].critical]]

AllBatteries ==
    {MkChecks(f, c) : f \in [1..NumChecks -> Verdicts],
                      c \in UNION {assess_confidence(p, k) : p, k \in BOOLEAN}}

\* batteries in which at most MaxDeviant checks are failed or critical and
\* the confidence score is no higher than the threshold
Batteries ==
    {b \in AllBatteries :
        /\ Cardinality({i \in 1..NumChecks : ~b[i].passed \/ b[i].critical})
              <= MaxDeviant
        /\ b[5].score <= confidence_threshold}

failed_whenCritical(check) == check.critical

\* check.failed
failed(check) == ~check.passed

all_passed_butCompleteness(checks) ==
    \A i \in DOMAIN checks : i = 2 \/ checks[i].passed

all_passed(checks) == \A i \in DOMAIN checks : checks[i].passed

critical_failed_all(checks) ==
    \A i \in DOMAIN checks : failed(checks[i]) /\ checks[i].critical

critical_failed(checks) ==
    \E i \in DOMAIN checks : failed(checks[i]) /\ checks[i].critical

verify_completeIgnoresSteps(checks, has_more_steps) ==
    [passed |-> all_passed(checks),
     checks |-> checks,
     complete |-> all_passed(checks),
     should_escalate |-> critical_failed(checks),
     confidence_score |-> checks[5].score]

verify_shortCircuit(checks, has_more_steps) ==
    LET n == IF all_passed(checks) THEN Len(checks)
             ELSE CHOOSE i \in DOMAIN checks :
                     /\ failed(checks[i])
                     /\ \A j \in 1..(i - 1) : checks[j].passed
    IN  [passed |-> all_passed(checks),
         checks |-> SubSeq(checks, 1, n),
         complete |-> all_passed(checks) /\ ~has_more_steps,
         should_escalate |-> critical_failed(checks),
         confidence_score |-> checks[5].score]

\* checks holds the results of the six helpers in the order verify appends them
verify(checks, has_more_steps) ==
    [passed |-> all_passed(checks),
     checks |-> checks,
     complete |-> all_passed(checks) /\ ~has_more_steps,
     should_escalate |-> critical_failed(checks),
     confidence_score |-> checks[5].score]

verify_after_keepsChecks(previous, checks, has_more_steps) ==
    [verify(checks, has_more_steps) EXCEPT !.checks = previous.checks \o checks]

\* a run of verify after an earlier run returned previous: "checks = []",
\* the list is local to the call and nothing of the earlier run is read
verify_after(previous, checks, has_more_steps) == verify(checks, has_more_steps)

\* _check_completeness(result, plan.requirements) can pass only on an
\* execution that did not fail
check_completeness(result) == result.status # "FAILED"

NoVerification ==
    [passed |-> FALSE, checks |-> <<>>, complete |-> FALSE, should_escalate |-> FALSE,
     confidence_score |-> 0]

\* verification.escalation_reason: the critical checks that failed
escalation_reason(v) ==
    {v.checks[i].name : i \in {j \in DOMAIN v.checks :
                                  failed(v.checks[j]) /\ v.checks[j].critical}}

(***************************************************************************)
(* Executor.execute_plan                                                   *)
(***************************************************************************)
\* What one tool call does.  "OK": the tool returns a ToolResult with status
\* SUCCESS.  "MCPError": ToolExecutor.execute catches MCPError and returns a
\* ToolResult with status FAILED.  The others are exceptions raised on the
\* way: ToolNotFoundError by get_tool, UnauthorizedError and
\* ConsentDeniedError by the checks of ToolExecutor.execute,
\* ToolVerificationError by verify_result, ToolExecutionError by the tool.
\* The two timeouts: MCPClient.call_tool catches MCPTimeoutError and returns
\* MCPResult(status="TIMEOUT") without data, which verify_result then either
\* rejects (a check fails) or accepts (the tool's checks pass on no data).
ToolOutcomes == {"OK", "MCPError", "ToolExecutionError", "ToolNotFoundError",
                 "UnauthorizedError", "ConsentDeniedError", "ToolVerificationError",
                 "TimeoutRejected", "TimeoutAccepted"}

Timeouts == {"TimeoutRejected", "TimeoutAccepted"}

StepKinds == [critical : BOOLEAN, parallel_safe : BOOLEAN]

StepSeqs(n) == UNION {[1..k -> StepKinds] : k \in 0..n}

\* the plans of the execute_task loop: steps executed one after the other
SequentialSteps(n) == {sq \in StepSeqs(n) : \A i \in DOMAIN sq : ~sq[i].parallel_safe}

\* StepResult: status, failure, error, and the status of the ToolResult in output
StepResult(status, failure, error, tool_status) ==
    [status |-> status, failure |-> failure, error |-> error,
     tool_status |-> tool_status]

Returned(r) == [kind |-> "return", exc |-> "NONE", result |-> r]
Raised(e) ==
    [kind |-> "raise", exc |-> e, result |-> StepResult("NONE", FALSE, "NONE", "NONE")]

\* get_tool is called before the try block; only ToolExecutionError is caught
execute_sequential(step, outcome) ==
    IF outcome = "ToolNotFoundError" THEN Raised(outcome)
    ELSE IF outcome \in {"OK", "TimeoutAccepted"}
         THEN Returned(StepResult("SUCCESS", FALSE, "NONE", "SUCCESS"))
    ELSE IF outcome = "MCPError"
         THEN Returned(StepResult("SUCCESS", FALSE, "NONE", "FAILED"))
    ELSE IF outcome = "ToolExecutionError"
         THEN Returned(StepResult("FAILED", TRUE, "ToolExecutionError", "NONE"))
    ELSE IF outcome = "TimeoutRejected" THEN Raised("ToolVerificationError")
    ELSE Raised(outcome)

\* one awaited call per step, like execute_sequential
execute_parallel(step, outcome) == execute_sequential(step, outcome)

\* "if step_result.failure and step.critical"
abort_early(step, step_result) == step_result.failure /\ step.critical

\* calls counts the steps whose execution was started
RECURSIVE execute_loop(_, _, _, _)
execute_loop(steps, outcomes, i, results) ==
    IF i > Len(steps)
    THEN [kind |-> "return", exc |-> "NONE", steps |-> results,
          status |-> "SUCCESS", calls |-> i - 1]
    ELSE LET r == IF steps[i].parallel_safe
                  THEN execute_parallel(steps[i], outcomes[i])
                  ELSE execute_sequential(steps[i], outcomes[i])
         IN  IF r.kind = "raise"
             THEN [kind |-> "raise", exc |-> r.exc, steps |-> results,
                   status |-> "NONE", calls |-> i]
             ELSE IF abort_early(steps[i], r.result)
                  THEN [kind |-> "return", exc |-> "NONE",
                        steps |-> Append(results, r.result),
                        status |-> "FAILED", calls |-> i]
                  ELSE execute_loop(steps, outcomes, i + 1, Append(results, r.result))

execute_plan(steps, outcomes) == execute_loop(steps, outcomes, 1, <<>>)

NoExecution ==
    [kind |-> "none", exc |-> "NONE", steps |-> <<>>, status |-> "NONE", calls |-> 0]

(***************************************************************************)
(* Planner.create_plan                                                     *)
(***************************************************************************)
NoPlan ==
    [steps |-> <<>>, iteration |-> -1, parent |-> -1, has_more_steps |-> FALSE,
     tier |-> 0, reversibility |-> "UNSET"]

\* tier is the HITL tier of the action the plan proposes and reversibility
\* that action's reversibility; execute_task never computes them
create_initial_plan(steps, more, tier, reversibility) ==
    [steps |-> steps, iteration |-> 0, parent |-> -1, has_more_steps |-> more,
     tier |-> tier, reversibility |-> reversibility]

\* current_plan is context.current_plan
adapt_plan(current_plan, steps, more, tier, reversibility) ==
    [steps |-> steps, iteration |-> current_plan.iteration + 1,
     parent |-> current_plan.iteration, has_more_steps |-> more, tier |-> tier,
     reversibility |-> reversibility]

create_plan_alwaysInitial(it, current_plan, steps, more, tier, reversibility) ==
    create_initial_plan(steps, more, tier, reversibility)

\* "if iteration == 0: return await self._create_initial_plan(task, context)"
create_plan(it, current_plan, steps, more, tier, reversibility) ==
    IF it = 0 THEN create_initial_plan(steps, more, tier, reversibility)
    ELSE adapt_plan(current_plan, steps, more, tier, reversibility)

(***************************************************************************)
(* ApprovalPolicyManager                                                   *)
(***************************************************************************)
\* "return tier in [HITLTier.TIER_3, HITLTier.TIER_4]"
should_request_approval(tier) == tier \in {3, 4}

(***************************************************************************)
(* TierClassificationEngine.classify_action                                *)
(***************************************************************************)
Impacts == {"LOW", "MEDIUM", "HIGH"}
Reversibilities == {"FULL", "PARTIAL", "NONE"}

\* the sensitivity levels of an action's data, lowest first
SensitivityLevels == <<"PUBLIC", "INTERNAL", "CONFIDENTIAL", "RESTRICTED">>

Actions ==
    [impact : Impacts, reversibility : Reversibilities,
     sensitivity : {SensitivityLevels[i] : i \in DOMAIN SensitivityLevels}]

\* the classifier's name for data of the highest level is "PHI"
assess_data_sensitivity(action) ==
    IF action.sensitivity = "RESTRICTED" THEN "PHI" ELSE action.sensitivity

classify_action(action) ==
    LET impact == action.impact
        reversibility == action.reversibility
        data_sensitivity == assess_data_sensitivity(action)
    IN  IF impact = "LOW" /\ reversibility = "FULL" THEN 1
        ELSE IF impact = "MEDIUM" /\ reversibility \in {"FULL", "PARTIAL"} THEN 2
        ELSE IF impact = "HIGH" \/ data_sensitivity = "PHI" THEN 3
        ELSE 4

\* ApprovalRequirements.can_modify
can_modify(tier) == tier = 3

(***************************************************************************)
(* AgentOrchestrator.execute_task                                          *)
(***************************************************************************)
Terminal == {"COMPLETE", "ESCALATED", "MAX_ITERATIONS", "UNCAUGHT"}

NoResponse ==
    [status |-> "NONE", reason |-> {}, result |-> NoExecution,
     verification |-> NoVerification, trace |-> <<>>]

\* the record context.trace holds for one iteration (plan, result, verdict)
TraceRecord(it, p, v) ==
    [iteration |-> it, plan_iteration |-> p.iteration, complete |-> v.complete,
     should_escalate |-> v.should_escalate]

Decision_neverEscalate(v) ==
    IF v.complete THEN "COMPLETE" ELSE "ITERATING"

\* "if verification.complete ... elif verification.should_escalate ... else"
Decision(v) ==
    IF v.complete THEN "COMPLETE"
    ELSE IF v.should_escalate THEN "ESCALATED"
    ELSE "ITERATING"

\* AgentResponse(result=..., verification=..., trace=...): no status is given
CompleteResponse(result, v, tr) ==
    [status |-> "UNSET", reason |-> {}, result |-> result, verification |-> v,
     trace |-> tr]

EscalatedResponse_emptyTrace(v, tr) ==
    [status |-> "ESCALATED", reason |-> escalation_reason(v), result |-> NoExecution,
     verification |-> NoVerification, trace |-> <<>>]

\* "trace=context.trace"
EscalatedResponse(v, tr) ==
    [status |-> "ESCALATED", reason |-> escalation_reason(v), result |-> NoExecution,
     verification |-> NoVerification, trace |-> tr]

MaxIterationsResponse(tr) ==
    [status |-> "MAX_ITERATIONS", reason |-> {}, result |-> NoExecution,
     verification |-> NoVerification, trace |-> tr]

LoopContinues_offByOne(it) == it + 2 < max_iterations

\* "for iteration in range(max_iterations)"
LoopContinues(it) == it + 1 < max_iterations

GatherOutcomes == {"NONE", "CompactionError"}

OrchInit ==
    /\ state = "GATHERING"
    /\ iteration = 0
    /\ plan = NoPlan
    /\ execution_result = NoExecution
    /\ verification = NoVerification
    /\ response = NoResponse
    /\ trace = <<>>
    /\ approval_response = "NONE"
    /\ gather_error = "NONE"

\* gather_context; a compaction it sets off may raise CompactionError, which
\* nothing in execute_task catches
Gather ==
    /\ state = "GATHERING"
    /\ \E outcome \in GatherOutcomes :
          /\ gather_error' = outcome
          /\ state' = IF outcome = "NONE" THEN "PLANNING" ELSE "UNCAUGHT"
    /\ UNCHANGED <<iteration, plan, execution_result, verification, response, trace,
                   approval_response>>
    /\ UNCHANGED not_orch_vars

Plan ==
    /\ state = "PLANNING"
    /\ \E steps \in SequentialSteps(MaxPlanSteps), more \in BOOLEAN, a \in Actions :
          plan' = create_plan(iteration, plan, steps, more, classify_action(a),
                              a.reversibility)
    /\ state' = "ACTING"
    /\ UNCHANGED <<iteration, execution_result, verification, response, trace,
                   approval_response, gather_error>>
    /\ UNCHANGED not_orch_vars

\* the plan goes straight to executor.execute_plan; an exception it raises
\* leaves execute_task
Act ==
    /\ state = "ACTING"
    /\ \E outcomes \in [1..Len(plan.steps) -> ToolOutcomes] :
          LET r == execute_plan(plan.steps, outcomes)
          IN  /\ execution_result' = r
              /\ state' = IF r.kind = "raise" THEN "UNCAUGHT" ELSE "VERIFYING"
    /\ UNCHANGED <<iteration, plan, verification, response, trace, approval_response,
                   gather_error>>
    /\ UNCHANGED not_orch_vars

Verify ==
    /\ state = "VERIFYING"
    /\ \E checks \in Batteries :
          /\ checks[2].passed => check_completeness(execution_result)
          /\ LET v == verify(checks, plan.has_more_steps)
                 tr == Append(trace, TraceRecord(iteration, plan, v))
                 d == Decision(v)
             IN  /\ verification' = v
                 /\ trace' = tr
                 /\ state' = d
                 /\ response' = IF d = "COMPLETE"
                                THEN CompleteResponse(execution_result, v, tr)
                                ELSE IF d = "ESCALATED" THEN EscalatedResponse(v, tr)
                                ELSE response
    /\ UNCHANGED <<iteration, plan, execution_result, approval_response, gather_error>>
    /\ UNCHANGED not_orch_vars

Iterate ==
    /\ state = "ITERATING"
    /\ LoopContinues(iteration)
    /\ iteration' = iteration + 1
    /\ state' = "GATHERING"
    /\ execution_result' = NoExecution
    /\ verification' = NoVerification
    /\ UNCHANGED <<plan, response, trace, approval_response, gather_error>>
    /\ UNCHANGED not_orch_vars

MaxIterationsReached ==
    /\ state = "ITERATING"
    /\ ~LoopContinues(iteration)
    /\ state' = "MAX_ITERATIONS"
    /\ response' = MaxIterationsResponse(trace)
    /\ UNCHANGED <<iteration, plan, execution_result, verification, trace,
                   approval_response, gather_error>>
    /\ UNCHANGED not_orch_vars

(***************************************************************************)
(* execute_plan and verify on their own                                    *)
(***************************************************************************)
ExecIdle == x_steps = <<>> /\ x_outcomes = <<>> /\ x_result = NoExecution

ExecInit ==
    /\ x_steps \in StepSeqs(MaxSteps)
    /\ x_outcomes \in [1..Len(x_steps) -> ToolOutcomes]
    /\ x_result = NoExecution

RunExecutePlan ==
    /\ x_result = NoExecution
    /\ x_result' = execute_plan(x_steps, x_outcomes)
    /\ UNCHANGED <<x_steps, x_outcomes>>
    /\ UNCHANGED not_exec_vars

VerifyIdle ==
    /\ v_checks = <<>>
    /\ v_more = FALSE
    /\ v_result = NoVerification
    /\ v_second = NoVerification

VerifyInit ==
    /\ v_checks \in AllBatteries
    /\ v_more \in BOOLEAN
    /\ v_result = NoVerification
    /\ v_second = NoVerification

RunVerify ==
    /\ v_result = NoVerification
    /\ v_result' = verify(v_checks, v_more)
    /\ UNCHANGED <<v_checks, v_more, v_second>>
    /\ UNCHANGED not_verify_vars

\* verify called once more with the same result, plan and context
RunVerifyAgain ==
    /\ v_result # NoVerification
    /\ v_second = NoVerification
    /\ v_second' = verify_after(v_result, v_checks, v_more)
    /\ UNCHANGED <<v_checks, v_more, v_result>>
    /\ UNCHANGED not_verify_vars

(***************************************************************************)
(* ContextBudgetManager and WorkingMemory                                  *)
(***************************************************************************)
allocations ==
    [meta_blueprint |-> 2000, working_memory |-> 50000, tool_results |-> 30000,
     blueprints |-> 20000, reasoning |-> 40000, output |-> 10000, safety |-> 8000,
     dynamic |-> 40000]

\* categories and sizes the callers ask for; "uncategorised" is no key of allocations
BudgetCategories == {"working_memory", "tool_results", "uncategorised"}
RequestSizes == {20000, 40000}
TurnSizes == {20000}

\* self.allocations.get(category, 0)
allocated_for(category) ==
    IF category \in DOMAIN allocations THEN allocations[category] ELSE 0

\* x > limit * 0.8
Above80(x, limit) == x * 10 > limit * 8

check_budget(category, requested, in_use) ==
    IF requested > allocated_for(category)
    THEN [status |-> "OVER_ALLOCATION", action |-> "TRIGGER_COMPACTION"]
    ELSE IF Above80(in_use + requested, total_budget)
         THEN [status |-> "WARNING", action |-> "APPROACHING_LIMIT"]
         ELSE [status |-> "APPROVED", action |-> "PROCEED"]

\* self.used += amount
allocate(in_use, amount) == in_use + amount

\* self.used = max(0, self.used - amount)
release(in_use, amount) == IF in_use - amount > 0 THEN in_use - amount ELSE 0

NoCheck ==
    [category |-> "NONE", requested |-> 0, used |-> 0, status |-> "NONE",
     action |-> "NONE"]

BudgetIdle ==
    /\ used = 0
    /\ last_check = NoCheck
    /\ wm_tokens = 0
    /\ mem_phase = "ITERATION"
    /\ compaction_attempts = 0
    /\ crossed_80 = FALSE

\* used goes from at most 80% of total_budget to above it
Crosses80(before, after) ==
    ~Above80(before, total_budget) /\ Above80(after, total_budget)

CheckBudget ==
    /\ mem_phase = "ITERATION"
    /\ \E c \in BudgetCategories, n \in RequestSizes :
          LET r == check_budget(c, n, used)
          IN  last_check' = [category |-> c, requested |-> n, used |-> used,
                             status |-> r.status, action |-> r.action]
    /\ UNCHANGED <<used, wm_tokens, mem_phase, compaction_attempts, crossed_80>>
    /\ UNCHANGED not_budget_vars

Allocate ==
    /\ mem_phase = "ITERATION"
    /\ \E c \in BudgetCategories, n \in RequestSizes :
          /\ allocate(used, n) <= MaxUsed
          /\ used' = allocate(used, n)
    /\ crossed_80' = (crossed_80 \/ Crosses80(used, used'))
    /\ compaction_attempts' = IF Crosses80(used, used') THEN 0 ELSE compaction_attempts
    /\ UNCHANGED <<last_check, wm_tokens, mem_phase>>
    /\ UNCHANGED not_budget_vars

Release ==
    /\ mem_phase = "ITERATION"
    /\ \E c \in BudgetCategories, n \in RequestSizes :
          used' = release(used, n)
    /\ UNCHANGED <<last_check, wm_tokens, mem_phase, compaction_attempts, crossed_80>>
    /\ UNCHANGED not_budget_vars

\* WorkingMemory.add_turn: append, then _check_capacity; a triggered
\* compaction either brings the memory down to the target or leaves it
AddTurn ==
    /\ mem_phase = "ITERATION"
    /\ \E n \in TurnSizes :
          LET tokens == wm_tokens + n
          IN  /\ tokens <= MaxWmTokens
              /\ IF Above80(tokens, wm_max_tokens)
                 THEN /\ compaction_attempts < MaxAttempts
                      /\ compaction_attempts' = compaction_attempts + 1
                      /\ \E ok \in BOOLEAN :
                            wm_tokens' = IF ok /\ tokens > compaction_target
                                         THEN compaction_target ELSE tokens
                 ELSE /\ wm_tokens' = tokens
                      /\ UNCHANGED compaction_attempts
    /\ UNCHANGED <<used, last_check, mem_phase, crossed_80>>
    /\ UNCHANGED not_budget_vars

\* the next Gather phase starts
StartGather ==
    /\ mem_phase = "ITERATION"
    /\ mem_phase' = "GATHER"
    /\ UNCHANGED <<used, last_check, wm_tokens, compaction_attempts, crossed_80>>
    /\ UNCHANGED not_budget_vars

\* gather_context: a budget check before anything new is added, then the
\* allocation unless the check answered OVER_ALLOCATION
GatherContext ==
    /\ mem_phase = "GATHER"
    /\ \E c \in BudgetCategories, n \in RequestSizes :
          LET r == check_budget(c, n, used)
              after == IF r.status = "OVER_ALLOCATION" THEN used ELSE allocate(used, n)
          IN  /\ after <= MaxUsed
              /\ last_check' = [category |-> c, requested |-> n, used |-> used,
                                status |-> r.status, action |-> r.action]
              /\ used' = after
              /\ crossed_80' = Crosses80(used, after)
    /\ mem_phase' = "ITERATION"
    /\ compaction_attempts' = 0
    /\ UNCHANGED wm_tokens
    /\ UNCHANGED not_budget_vars

(***************************************************************************)
(* The approval flow: plan, evaluate_plan, request_approval, and the       *)
(* handling of the user's response                                         *)
(***************************************************************************)
DenialReasons == {"wrong recipient", "not now"}
UserModifications == {"send to legal instead"}

NoProposal ==
    [iteration |-> -1, parent |-> -1, action |-> "NONE", requirements |-> <<>>]

NoApprovalResponse == [decision |-> "NONE", reason |-> "NONE", modifications |-> "NONE"]

\* the buttons of _build_approval_ui; "Modify" only if requirements.can_modify
Buttons(tier) ==
    {"APPROVE", "DENY", "EXPLAIN"} \cup (IF can_modify(tier) THEN {"MODIFY"} ELSE {})

\* request_approval, for the button that ends the conversation ("EXPLAIN"
\* shows the explanation and asks again)
ApprovalResponse(user_action, reason, modifications) ==
    IF user_action = "APPROVE"
    THEN [decision |-> "APPROVED", reason |-> "NONE", modifications |-> "NONE"]
    ELSE IF user_action = "DENY"
         THEN [decision |-> "DENIED", reason |-> reason, modifications |-> "NONE"]
         ELSE [decision |-> "MODIFY", reason |-> "NONE", modifications |-> modifications]

response_branch_executeDenied(decision) ==
    IF decision = "MODIFY" THEN "REPLAN" ELSE "EXECUTE"

response_branch_executeOriginal(decision) ==
    IF decision = "DENIED" THEN "HANDLE_DENIAL" ELSE "EXECUTE"

\* step 6 of the flow: "if approval_response.decision == ... elif ... elif"
response_branch(decision) ==
    IF decision = "APPROVED" THEN "EXECUTE"
    ELSE IF decision = "DENIED" THEN "HANDLE_DENIAL"
    ELSE IF decision = "MODIFY" THEN "REPLAN"
    ELSE "NONE"

\* agent.replan_with_modification: the modification joins the requirements
\* and the new plan is the successor of the one it replaces
replan_with_modification(p, modifications, action) ==
    [iteration |-> p.iteration + 1, parent |-> p.iteration, action |-> action,
     requirements |-> Append(p.requirements, modifications)]

HitlIdle ==
    /\ h_state = "START"
    /\ h_plan = NoProposal
    /\ h_tier = 0
    /\ h_response = NoApprovalResponse
    /\ h_executed = {}
    /\ h_denials = {}

\* step 1: agent.create_plan
CreateProposal ==
    /\ h_state = "START"
    /\ \E a \in Actions :
          h_plan' = [iteration |-> 0, parent |-> -1, action |-> a, requirements |-> <<>>]
    /\ h_state' = "PLANNED"
    /\ UNCHANGED <<h_tier, h_response, h_executed, h_denials>>
    /\ UNCHANGED not_hitl_vars

\* steps 2 to 4, HITLGovernance.evaluate_plan: verify, classify, ask the
\* policy; the outcome of verify is not read by the branch
EvaluatePlan ==
    /\ h_state = "PLANNED"
    /\ h_tier' = classify_action(h_plan.action)
    /\ h_state' = IF should_request_approval(h_tier') THEN "NEEDS_APPROVAL"
                  ELSE "AUTO_APPROVED"
    /\ h_response' = NoApprovalResponse
    /\ UNCHANGED <<h_plan, h_executed, h_denials>>
    /\ UNCHANGED not_hitl_vars

\* step 5: request_approval returns the user's decision
RequestApproval ==
    /\ h_state = "NEEDS_APPROVAL"
    /\ \E b \in Buttons(h_tier) \ {"EXPLAIN"}, r \in DenialReasons,
          m \in UserModifications :
          h_response' = ApprovalResponse(b, r, m)
    /\ h_state' = "RESPONDED"
    /\ UNCHANGED <<h_plan, h_tier, h_executed, h_denials>>
    /\ UNCHANGED not_hitl_vars

\* an auto-approved plan goes to the executor
ExecuteAutoApproved ==
    /\ h_state = "AUTO_APPROVED"
    /\ h_executed' = h_executed \cup {h_plan.iteration}
    /\ h_state' = "EXECUTED"
    /\ UNCHANGED <<h_plan, h_tier, h_response, h_denials>>
    /\ UNCHANGED not_hitl_vars

\* step 6, APPROVED: executor.execute(plan)
ExecuteApproved ==
    /\ h_state = "RESPONDED"
    /\ response_branch(h_response.decision) = "EXECUTE"
    /\ h_executed' = h_executed \cup {h_plan.iteration}
    /\ h_state' = "EXECUTED"
    /\ UNCHANGED <<h_plan, h_tier, h_response, h_denials>>
    /\ UNCHANGED not_hitl_vars

\* step 6, DENIED: handle_denial logs the denial and asks the user for an
\* alternative intent
HandleDenial ==
    /\ h_state = "RESPONDED"
    /\ response_branch(h_response.decision) = "HANDLE_DENIAL"
    /\ h_denials' = h_denials \cup
          {[iteration |-> h_plan.iteration, reason |-> h_response.reason]}
    /\ h_state' = "DENIAL_HANDLED"
    /\ UNCHANGED <<h_plan, h_tier, h_response, h_executed>>
    /\ UNCHANGED not_hitl_vars

\* step 6, MODIFY: handle_modification, replan_with_modification, then
\* "loop back to step 2"
HandleModification ==
    /\ h_state = "RESPONDED"
    /\ response_branch(h_response.decision) = "REPLAN"
    /\ h_plan.iteration < MaxReplans
    /\ \E a \in Actions :
          h_plan' = replan_with_modification(h_plan, h_response.modifications, a)
    /\ h_state' = "PLANNED"
    /\ UNCHANGED <<h_tier, h_response, h_executed, h_denials>>
    /\ UNCHANGED not_hitl_vars

(***************************************************************************)
(* CompactionService.compact_working_memory                                *)
(***************************************************************************)
Items == 1..MaxItems

\* a working memory: its items, and those of them that are critical
Memories == {m \in [items : SUBSET Items, critical : SUBSET Items] :
                m.critical \subseteq m.items}

\* _verify_no_data_loss: the critical items the compact memory lacks
verify_no_data_loss(working_memory, compact_memory) ==
    LET missing == working_memory.critical \ compact_memory.critical_data
    IN  [passed |-> missing = {}, missing_items |-> missing]

NoCompaction ==
    [kind |-> "none", exc |-> "NONE", critical_data |-> {}, missing_items |-> {}]

compact_working_memory_unverified(working_memory, extracted) ==
    [kind |-> "return", exc |-> "NONE", critical_data |-> extracted,
     missing_items |-> {}]

\* extracted is what _extract_critical_data took out of the working memory
compact_working_memory(working_memory, extracted) ==
    LET compact_memory == [critical_data |-> extracted]
        data_loss == verify_no_data_loss(working_memory, compact_memory)
    IN  IF ~data_loss.passed
        THEN [kind |-> "raise", exc |-> "CompactionError", critical_data |-> {},
              missing_items |-> data_loss.missing_items]
        ELSE [kind |-> "return", exc |-> "NONE",
              critical_data |-> compact_memory.critical_data, missing_items |-> {}]

CompactIdle == c_memory = [items |-> {}, critical |-> {}] /\ c_result = NoCompaction

CompactInit == c_memory \in Memories /\ c_result = NoCompaction

Compact ==
    /\ c_result = NoCompaction
    /\ \E extracted \in SUBSET c_memory.items :
          c_result' = compact_working_memory(c_memory, extracted)
    /\ UNCHANGED c_memory
    /\ UNCHANGED not_compact_vars

(***************************************************************************)
(* Planner._adapt_plan after a failed step                                 *)
(***************************************************************************)
\* a step configuration is a tool with its parameters
Configs == 1..MaxConfigs

\* _generate_adapted_steps: a step built from an alternative that has not
\* failed; with no such alternative either the steps of the current plan
\* again or a PlanningError
generate_adapted_steps(current_plan, alternatives, failed_configs) ==
    LET viable == alternatives \ failed_configs
    IN  IF viable # {}
        THEN {[kind |-> "return", exc |-> "NONE", steps |-> <<c>>] : c \in viable}
        ELSE {[kind |-> "return", exc |-> "NONE", steps |-> current_plan.steps],
              [kind |-> "raise", exc |-> "PlanningError", steps |-> <<>>]}

AdaptIdle ==
    /\ a_state = "IDLE"
    /\ a_current = NoPlan
    /\ a_failed = {}
    /\ a_alternatives = {}
    /\ a_plan = NoPlan

AdaptInit ==
    /\ a_state = "PLANNING"
    /\ a_failed \in SUBSET Configs \ {{}}
    /\ a_current \in {create_initial_plan(<<c>>, FALSE, 1, "FULL") : c \in a_failed}
    /\ a_alternatives \in SUBSET Configs
    /\ a_plan = NoPlan

\* create_plan in an iteration after the first, and what execute_task does
\* with its outcome: a plan goes to the executor, an exception is not caught
AdaptPlan ==
    /\ a_state = "PLANNING"
    /\ \E r \in generate_adapted_steps(a_current, a_alternatives, a_failed) :
          IF r.kind = "return"
          THEN /\ a_plan' = adapt_plan(a_current, r.steps, FALSE, 1, "FULL")
               /\ a_state' = "ACTING"
          ELSE /\ a_plan' = a_plan
               /\ a_state' = "UNCAUGHT"
    /\ UNCHANGED <<a_current, a_failed, a_alternatives>>
    /\ UNCHANGED not_adapt_vars

(***************************************************************************)
(* ToolExecutor.execute                                                    *)
(***************************************************************************)
\* a tool specification, as far as execute reads it
Tools == [requires_consent : BOOLEAN, cacheable : BOOLEAN]

\* parameters the tool's schema rejects and parameters it accepts
Parameters == {"invalid", "valid"}

\* _validate_parameters(parameters, tool_spec.parameter_schema)
validate_parameters(parameters) == parameters = "valid"

\* _generate_cache_key(tool_spec, validated_params)
generate_cache_key(tool_spec, validated_params) == <<tool_spec, validated_params>>

CacheKeys == {generate_cache_key(t, p) : t \in Tools, p \in {"valid"}}

\* what mcp.call_tool does and whether the checks of verify_result pass on
\* what it returned: an MCPResult with status SUCCESS, one with status
\* TIMEOUT and no data (MCPTimeoutError is caught inside call_tool; an
\* MCPServerError is handled the same way and is not modelled apart), or a
\* raised MCPError, after which verify_result is not reached
McpOutcomes ==
    ({"SUCCESS", "TIMEOUT"} \X BOOLEAN) \cup {<<"MCPError", FALSE>>}

NoEntry == [status |-> "NONE", mcp_status |-> "NONE", expires |-> 0]

\* ResultCache.get: the entry stored under the key unless its time-to-live
\* has elapsed
cache_get(cache, key, now) ==
    IF cache[key] # NoEntry /\ now < cache[key].expires THEN cache[key] ELSE NoEntry

\* ResultCache.set(cache_key, verified_result, ttl)
cache_set(cache, key, result, ttl, now) ==
    [cache EXCEPT ![key] = [status |-> result.status, mcp_status |-> result.mcp_status,
                            expires |-> now + ttl]]

\* ToolVerifier.verify_result: the checks read result.data only; when all
\* pass the ToolResult has status SUCCESS whatever the MCPResult's status
verify_result(mcp_status, checks_pass) ==
    IF checks_pass
    THEN [kind |-> "return", exc |-> "NONE", status |-> "SUCCESS",
          mcp_status |-> mcp_status]
    ELSE [kind |-> "raise", exc |-> "ToolVerificationError", status |-> "NONE",
          mcp_status |-> mcp_status]

execute_checks_noConsent(tool_spec, parameters, authorized, granted) ==
    IF ~authorized THEN "UnauthorizedError"
    ELSE IF ~validate_parameters(parameters) THEN "ValidationError"
    ELSE "NONE"

\* steps 1 to 3 of execute: the exception that refuses the call, if any
execute_checks(tool_spec, parameters, authorized, granted) ==
    IF ~authorized THEN "UnauthorizedError"
    ELSE IF tool_spec.requires_consent /\ ~granted THEN "ConsentDeniedError"
    ELSE IF ~validate_parameters(parameters) THEN "ValidationError"
    ELSE "NONE"

ToolCallOutcome(kind, exc, status, mcp_status, from_cache, tool_called, cache) ==
    [kind |-> kind, exc |-> exc, status |-> status, mcp_status |-> mcp_status,
     from_cache |-> from_cache, tool_called |-> tool_called, cache |-> cache]

\* mcp is what the MCP call does if it is made, checks_pass whether the
\* checks of verify_result pass on what it returned
execute(tool_spec, parameters, authorized, granted, mcp, checks_pass, cache, now) ==
    LET refused == execute_checks(tool_spec, parameters, authorized, granted)
        cache_key == generate_cache_key(tool_spec, parameters)
        cached == cache_get(cache, cache_key, now)
        verified_result == verify_result(mcp, checks_pass)
    IN  IF refused # "NONE"
        THEN ToolCallOutcome("raise", refused, "NONE", "NONE", FALSE, FALSE, cache)
        ELSE IF cached # NoEntry
        THEN ToolCallOutcome("return", "NONE", cached.status, cached.mcp_status,
                             TRUE, FALSE, cache)
        ELSE IF mcp = "MCPError"
        THEN ToolCallOutcome("return", "NONE", "FAILED", mcp, FALSE, TRUE, cache)
        ELSE IF verified_result.kind = "raise"
        THEN ToolCallOutcome("raise", verified_result.exc, "NONE", mcp, FALSE, TRUE,
                             cache)
        ELSE ToolCallOutcome("return", "NONE", verified_result.status, mcp, FALSE,
                             TRUE,
                             IF tool_spec.cacheable
                             THEN cache_set(cache, cache_key, verified_result,
                                            CacheTtl, now)
                             ELSE cache)

NoCall ==
    [tool_spec |-> [requires_consent |-> FALSE, cacheable |-> FALSE],
     parameters |-> "NONE", authorized |-> FALSE, granted |-> FALSE, at |-> 0,
     result |-> ToolCallOutcome("NONE", "NONE", "NONE", "NONE", FALSE, FALSE, <<>>)]

ToolIdle ==
    /\ t_cache = [k \in CacheKeys |-> NoEntry]
    /\ t_now = 0
    /\ t_call = NoCall

ToolInit == ToolIdle

Execute ==
    /\ \E tool_spec \in Tools, parameters \in Parameters, authorized \in BOOLEAN,
          granted \in BOOLEAN, mcp \in McpOutcomes :
          \* get_consent is asked only for a tool that requires consent
          /\ ~tool_spec.requires_consent => ~granted
          /\ LET r == execute(tool_spec, parameters, authorized, granted, mcp[1],
                              mcp[2], t_cache, t_now)
             IN  /\ t_call' = [tool_spec |-> tool_spec, parameters |-> parameters,
                               authorized |-> authorized, granted |-> granted,
                               at |-> t_now, result |-> [r EXCEPT !.cache = <<>>]]
                 /\ t_cache' = r.cache
    /\ UNCHANGED t_now
    /\ UNCHANGED not_tool_vars

\* time passes between two calls
Tick ==
    /\ t_now < MaxClock
    /\ t_now' = t_now + 1
    /\ UNCHANGED <<t_cache, t_call>>
    /\ UNCHANGED not_tool_vars

(***************************************************************************)
(* Two writers on one ContextBudgetManager                                 *)
(***************************************************************************)
Writers == {1, 2}

\* values of used the two writers can find
InitialUsed == {0, 100000, 120000, 140000}

WriterIdle ==
    /\ w_used = 0
    /\ w_pc = [w \in Writers |-> "done"]
    /\ w_request = [w \in Writers |-> [category |-> "NONE", requested |-> 0]]
    /\ w_check = [w \in Writers |-> NoCheck]

WriterInit ==
    /\ w_used \in InitialUsed
    /\ w_pc = [w \in Writers |-> "check_budget"]
    /\ w_request \in [Writers -> [category : BudgetCategories,
                                  requested : RequestSizes]]
    /\ w_check = [w \in Writers |-> NoCheck]

\* a writer calls check_budget; it goes on to allocate when the answer is
\* APPROVED.  check_budget takes no lock and reserves nothing.
WriterCheck(w) ==
    /\ w_pc[w] = "check_budget"
    /\ LET r == check_budget(w_request[w].category, w_request[w].requested, w_used)
       IN  /\ w_check' = [w_check EXCEPT ![w] =
                            [category |-> w_request[w].category,
                             requested |-> w_request[w].requested, used |-> w_used,
                             status |-> r.status, action |-> r.action]]
           /\ w_pc' = [w_pc EXCEPT ![w] =
                         IF r.status = "APPROVED" THEN "allocate" ELSE "done"]
    /\ UNCHANGED <<w_used, w_request>>
    /\ UNCHANGED not_writer_vars

\* the writer's allocate call, a separate method call
WriterAllocate(w) ==
    /\ w_pc[w] = "allocate"
    /\ w_used' = allocate(w_used, w_request[w].requested)
    /\ w_pc' = [w_pc EXCEPT ![w] = "done"]
    /\ UNCHANGED <<w_request, w_check>>
    /\ UNCHANGED not_writer_vars

(***************************************************************************)
(* useAgentStream (frontend hook) and the agent service behind it          *)
(***************************************************************************)
\* the sendMessage calls, each with the EventSource it creates
Streams == 1..MaxSends

\* ready is "NONE" before the EventSource exists; assistantResponse and
\* thinkingEvents are the variables the handlers close over; ended records
\* what closed the EventSource
NoStream ==
    [ready |-> "NONE", assistantResponse |-> "", thinkingEvents |-> 0,
     ended |-> "NONE"]

NewStream == [NoStream EXCEPT !.ready = "OPEN"]

UserMessage(k) == [role |-> "user", content |-> k]

AssistantMessage(content) == [role |-> "assistant", content |-> content]

close_ref_keepsOpen(streams, ref, how) == streams

\* "if (eventSourceRef.current) { eventSourceRef.current.close(); ... }"
close_ref(streams, ref, how) ==
    IF ref # 0
    THEN [streams EXCEPT ![ref].ready = "CLOSED", ![ref].ended = how]
    ELSE streams

StreamIdle ==
    /\ s_messages = <<>>
    /\ s_isLoading = FALSE
    /\ s_error = "NONE"
    /\ s_currentThinking = 0
    /\ s_ref = 0
    /\ s_streams = [k \in Streams |-> NoStream]
    /\ s_sent = 0
    /\ s_running = {}

\* handleSendMessage; throws: the call of sendMessage raised; otherwise the
\* request reaches the agent service, which starts to process the message
SendMessage ==
    /\ s_sent < MaxSends
    /\ \E throws \in BOOLEAN :
          LET k == s_sent + 1
              closed == close_ref(s_streams, s_ref, "client")
          IN  /\ s_sent' = k
              /\ s_messages' = Append(s_messages, UserMessage(k))
              /\ s_currentThinking' = 0
              /\ IF throws
                 THEN /\ s_streams' = closed
                      /\ s_ref' = 0
                      /\ s_isLoading' = FALSE
                      /\ s_error' = "Failed to send message"
                      /\ s_running' = s_running
                 ELSE /\ s_streams' = [closed EXCEPT ![k] = NewStream]
                      /\ s_ref' = k
                      /\ s_isLoading' = TRUE
                      /\ s_error' = "NONE"
                      /\ s_running' = s_running \cup {k}
    /\ UNCHANGED not_stream_vars

\* a closed EventSource dispatches no events; an event whose data does not
\* parse and an 'iteration' event change nothing
Thinking(k) ==
    /\ s_streams[k].ready = "OPEN"
    /\ s_streams[k].thinkingEvents < MaxThinking
    /\ s_streams' = [s_streams EXCEPT ![k].thinkingEvents = @ + 1]
    /\ s_currentThinking' = s_streams[k].thinkingEvents + 1
    /\ UNCHANGED <<s_messages, s_isLoading, s_error, s_ref, s_sent, s_running>>
    /\ UNCHANGED not_stream_vars

Response(k) ==
    /\ s_streams[k].ready = "OPEN"
    /\ s_streams[k].assistantResponse = ""
    /\ s_streams' = [s_streams EXCEPT ![k].assistantResponse = "answer"]
    /\ UNCHANGED <<s_messages, s_isLoading, s_error, s_currentThinking, s_ref,
                   s_sent, s_running>>
    /\ UNCHANGED not_stream_vars

\* the service has finished the message and says so
Complete(k) ==
    /\ s_streams[k].ready = "OPEN"
    /\ s_messages' =
          Append(s_messages,
                 AssistantMessage(IF s_streams[k].assistantResponse # ""
                                  THEN s_streams[k].assistantResponse
                                  ELSE "I encountered an issue"))
    /\ s_currentThinking' = 0
    /\ s_isLoading' = FALSE
    /\ s_streams' = close_ref(s_streams, s_ref, "complete")
    /\ s_ref' = 0
    /\ s_running' = s_running \ {k}
    /\ UNCHANGED <<s_error, s_sent>>
    /\ UNCHANGED not_stream_vars

\* eventSource.onerror
OnError(k, how) ==
    /\ s_streams[k].ready = "OPEN"
    /\ s_error' = "Connection error"
    /\ s_isLoading' = FALSE
    /\ s_messages' = IF s_streams[k].assistantResponse = ""
                     THEN Append(s_messages, AssistantMessage("connection error"))
                     ELSE s_messages
    /\ s_streams' = close_ref(s_streams, s_ref, how)
    /\ s_ref' = 0
    /\ UNCHANGED <<s_currentThinking, s_sent>>
    /\ UNCHANGED not_stream_vars

\* an 'error' event sent by the service, which has given up the message: the
\* 'error' listener sets error and isLoading and closes the connection, then
\* onerror, a handler of the same event type, runs as well
ErrorEvent(k) ==
    /\ OnError(k, "error_event")
    /\ s_running' = s_running \ {k}

\* the connection fails; the listener of 'error' finds no data to parse and
\* onerror runs; the service is not told
ConnectionError(k) ==
    /\ OnError(k, "connection_error")
    /\ s_running' = s_running

ClearMessages ==
    /\ s_streams' = close_ref(s_streams, s_ref, "client")
    /\ s_ref' = 0
    /\ s_messages' = <<>>
    /\ s_currentThinking' = 0
    /\ s_isLoading' = FALSE
    /\ s_error' = "NONE"
    /\ UNCHANGED <<s_sent, s_running>>
    /\ UNCHANGED not_stream_vars

\* the service ends the processing of a message whose connection the client
\* has closed, by finishing it or by noticing the disconnect
ServiceEnds(k) ==
    /\ k \in s_running
    /\ s_streams[k].ready = "CLOSED"
    /\ s_running' = s_running \ {k}
    /\ UNCHANGED <<s_messages, s_isLoading, s_error, s_currentThinking, s_ref,
                   s_streams, s_sent>>
    /\ UNCHANGED not_stream_vars

(***************************************************************************)
(* DualDocumentUpload (frontend component)                                 *)
(***************************************************************************)
Dropzones == {"input", "blueprint"}

\* UploadState, without fileName and result
UploadState(isUploading, progress) ==
    [isUploading |-> isUploading, progress |-> progress]

UploadIdle ==
    /\ u_state = [z \in Dropzones |-> UploadState(FALSE, 0)]
    /\ u_reading = [z \in Dropzones |-> 0]
    /\ u_inflight = [z \in Dropzones |-> 0]
    /\ u_timers = [z \in Dropzones |-> 0]
    /\ u_drops = [z \in Dropzones |-> 0]

\* handleInputDocumentDrop / handleBlueprintDrop up to the first await; the
\* Dropzone is disabled while its loading prop, isUploading, is true.  The
\* input handler awaits file.text(); the blueprint handler sets progress 60
\* and awaits uploadBlueprint at once
Drop(z) ==
    /\ ~u_state[z].isUploading
    /\ u_drops[z] < MaxDrops
    /\ u_drops' = [u_drops EXCEPT ![z] = @ + 1]
    /\ IF z = "input"
       THEN /\ u_state' = [u_state EXCEPT ![z] = UploadState(TRUE, 30)]
            /\ u_reading' = [u_reading EXCEPT ![z] = @ + 1]
            /\ u_inflight' = u_inflight
       ELSE /\ u_state' = [u_state EXCEPT ![z] = UploadState(TRUE, 60)]
            /\ u_inflight' = [u_inflight EXCEPT ![z] = @ + 1]
            /\ u_reading' = u_reading
    /\ u_timers' = u_timers
    /\ UNCHANGED not_upload_vars

\* file.text() settles: progress 60 and the request uploadDocument is sent,
\* or the catch block resets the state
ReadFile(z) ==
    /\ u_reading[z] > 0
    /\ u_reading' = [u_reading EXCEPT ![z] = @ - 1]
    /\ \E ok \in BOOLEAN :
          IF ok
          THEN /\ u_state' = [u_state EXCEPT ![z].progress = 60]
               /\ u_inflight' = [u_inflight EXCEPT ![z] = @ + 1]
          ELSE /\ u_state' = [u_state EXCEPT ![z] = UploadState(FALSE, 0)]
               /\ u_inflight' = u_inflight
    /\ UNCHANGED <<u_timers, u_drops>>
    /\ UNCHANGED not_upload_vars

\* the upload request succeeds: progress 100 and the reset is scheduled
UploadSucceeds(z) ==
    /\ u_inflight[z] > 0
    /\ u_inflight' = [u_inflight EXCEPT ![z] = @ - 1]
    /\ u_state' = [u_state EXCEPT ![z] = UploadState(FALSE, 100)]
    /\ u_timers' = [u_timers EXCEPT ![z] = @ + 1]
    /\ UNCHANGED <<u_reading, u_drops>>
    /\ UNCHANGED not_upload_vars

\* the upload request fails: the catch block
UploadFails(z) ==
    /\ u_inflight[z] > 0
    /\ u_inflight' = [u_inflight EXCEPT ![z] = @ - 1]
    /\ u_state' = [u_state EXCEPT ![z] = UploadState(FALSE, 0)]
    /\ UNCHANGED <<u_reading, u_timers, u_drops>>
    /\ UNCHANGED not_upload_vars

\* the callback of setTimeout, 3 s (input) or 5 s (blueprint) after a success
TimerFires(z) ==
    /\ u_timers[z] > 0
    /\ u_timers' = [u_timers EXCEPT ![z] = @ - 1]
    /\ u_state' = [u_state EXCEPT ![z] = UploadState(FALSE, 0)]
    /\ UNCHANGED <<u_reading, u_inflight, u_drops>>
    /\ UNCHANGED not_upload_vars

(***************************************************************************)
(* Specifications                                                          *)
(***************************************************************************)
Init == OrchInit /\ ExecIdle /\ VerifyIdle /\ BudgetIdle /\ HitlIdle
    /\ CompactIdle /\ AdaptIdle /\ ToolIdle /\ WriterIdle /\ StreamIdle /\ UploadIdle

Next == Gather \/ Plan \/ Act \/ Verify \/ Iterate \/ MaxIterationsReached

Spec == Init /\ [][Next]_vars

\* execute_task runs on as long as a phase remains to be run
LiveSpec == Spec /\ WF_vars(Next)

ExecSpecInit == OrchInit /\ ExecInit /\ VerifyIdle /\ BudgetIdle /\ HitlIdle
    /\ CompactIdle /\ AdaptIdle /\ ToolIdle /\ WriterIdle /\ StreamIdle /\ UploadIdle

ExecNext == RunExecutePlan

ExecSpec == ExecSpecInit /\ [][ExecNext]_vars

VerifySpecInit == OrchInit /\ ExecIdle /\ VerifyInit /\ BudgetIdle /\ HitlIdle
    /\ CompactIdle /\ AdaptIdle /\ ToolIdle /\ WriterIdle /\ StreamIdle /\ UploadIdle

VerifyNext == RunVerify \/ RunVerifyAgain

VerifySpec == VerifySpecInit /\ [][VerifyNext]_vars

BudgetSpecInit == OrchInit /\ ExecIdle /\ VerifyIdle /\ BudgetIdle /\ HitlIdle
    /\ CompactIdle /\ AdaptIdle /\ ToolIdle /\ WriterIdle /\ StreamIdle /\ UploadIdle

BudgetNext ==
    CheckBudget \/ Allocate \/ Release \/ AddTurn \/ StartGather \/ GatherContext

BudgetSpec == BudgetSpecInit /\ [][BudgetNext]_vars

HitlSpecInit == OrchInit /\ ExecIdle /\ VerifyIdle /\ BudgetIdle /\ HitlIdle
    /\ CompactIdle /\ AdaptIdle /\ ToolIdle /\ WriterIdle /\ StreamIdle /\ UploadIdle

HitlNext ==
    CreateProposal \/ EvaluatePlan \/ RequestApproval \/ ExecuteAutoApproved
        \/ ExecuteApproved \/ HandleDenial \/ HandleModification

HitlSpec == HitlSpecInit /\ [][HitlNext]_vars

CompactSpecInit ==
    OrchInit /\ ExecIdle /\ VerifyIdle /\ BudgetIdle /\ HitlIdle /\ CompactInit
        /\ AdaptIdle /\ ToolIdle /\ WriterIdle /\ StreamIdle /\ UploadIdle

CompactNext == Compact

CompactSpec == CompactSpecInit /\ [][CompactNext]_vars

AdaptSpecInit ==
    OrchInit /\ ExecIdle /\ VerifyIdle /\ BudgetIdle /\ HitlIdle /\ CompactIdle
        /\ AdaptInit /\ ToolIdle /\ WriterIdle /\ StreamIdle /\ UploadIdle

AdaptNext == AdaptPlan

AdaptSpec == AdaptSpecInit /\ [][AdaptNext]_vars

ToolSpecInit ==
    OrchInit /\ ExecIdle /\ VerifyIdle /\ BudgetIdle /\ HitlIdle /\ CompactIdle
        /\ AdaptIdle /\ ToolInit /\ WriterIdle /\ StreamIdle /\ UploadIdle

ToolNext == Execute \/ Tick

ToolSpec == ToolSpecInit /\ [][ToolNext]_vars

WriterSpecInit ==
    OrchInit /\ ExecIdle /\ VerifyIdle /\ BudgetIdle /\ HitlIdle /\ CompactIdle
        /\ AdaptIdle /\ ToolIdle /\ WriterInit /\ StreamIdle /\ UploadIdle

WriterNext == \E w \in Writers : WriterCheck(w) \/ WriterAllocate(w)

WriterSpec == WriterSpecInit /\ [][WriterNext]_vars

StreamSpecInit ==
    OrchInit /\ ExecIdle /\ VerifyIdle /\ BudgetIdle /\ HitlIdle /\ CompactIdle
        /\ AdaptIdle /\ ToolIdle /\ WriterIdle /\ StreamIdle /\ UploadIdle

StreamNext ==
    \/ SendMessage
    \/ ClearMessages
    \/ \E k \in Streams :
          Thinking(k) \/ Response(k) \/ Complete(k) \/ ErrorEvent(k)
             \/ ConnectionError(k) \/ ServiceEnds(k)

StreamSpec == StreamSpecInit /\ [][StreamNext]_vars

UploadSpecInit ==
    OrchInit /\ ExecIdle /\ VerifyIdle /\ BudgetIdle /\ HitlIdle /\ CompactIdle
        /\ AdaptIdle /\ ToolIdle /\ WriterIdle /\ StreamIdle /\ UploadIdle

UploadNext ==
    \E z \in Dropzones :
       Drop(z) \/ ReadFile(z) \/ UploadSucceeds(z) \/ UploadFails(z)
          \/ TimerFires(z)

UploadSpec == UploadSpecInit /\ [][UploadNext]_vars

(***************************************************************************)
(* Properties                                                              *)
(***************************************************************************)
Verified == verification.checks # <<>>

\* C1: whenever the verification of an iteration has complete = true, the
\* task is in COMPLETE and the returned AgentResponse has status SUCCESS.
C1_CompleteReturnsSuccess ==
    (Verified /\ verification.complete) =>
        (state = "COMPLETE" /\ response.status = "SUCCESS")

\* C2: a plan whose action is tier 3 or tier 4 has none of its steps executed
\* unless the approval interface answered APPROVED before.
C2_Tier34NeedsApproval ==
    (should_request_approval(plan.tier) /\ execution_result.calls > 0) =>
        approval_response = "APPROVED"

\* C3: verify returns should_escalate = true whenever one of the six checks
\* has passed = false and critical = true, whatever the other checks are.
C3_CriticalFailureEscalates ==
    (v_result.checks # <<>>) =>
        ((\E i \in 1..NumChecks : ~v_checks[i].passed /\ v_checks[i].critical)
            => v_result.should_escalate)

\* a critical failure of the last check alone, the five others having passed
C3_Witness ==
    /\ v_result.checks # <<>>
    /\ \A i \in 1..(NumChecks - 1) : v_checks[i].passed
    /\ ~v_checks[NumChecks].passed /\ v_checks[NumChecks].critical
    /\ v_result.should_escalate

C4_Inv ==
    (Verified /\ ~verification.complete /\ verification.should_escalate) =>
        /\ state = "ESCALATED"
        /\ response.status = "ESCALATED"
        /\ response.reason = escalation_reason(verification)
        /\ response.reason # {}
        /\ iteration < max_iterations

\* C4: when the verification of an iteration is not complete and has
\* should_escalate = true, the task ends ESCALATED with the escalation
\* reason, and no step of the loop is taken from ESCALATED, also when
\* iterations remain.
C4_EscalationEndsTask == [](C4_Inv) /\ [][state # "ESCALATED"]_vars

\* an escalation with iterations left, after at least one adaptation
C4_Witness ==
    /\ state = "ESCALATED"
    /\ iteration >= 1 /\ iteration < max_iterations - 1
    /\ verification.should_escalate /\ ~verification.complete
    /\ response.status = "ESCALATED"

\* C5: the running token usage never exceeds the total ceiling.
C5_UsedWithinCeiling == used <= total_budget

\* C6 as stated: whenever the verification of the last allowed iteration is
\* failing, the task ends with status MAX_ITERATIONS.
C6_FailingLastIterationIsMaxIterations ==
    (iteration = max_iterations - 1 /\ Verified /\ ~verification.passed
        /\ state \in Terminal) =>
            response.status = "MAX_ITERATIONS"

C6_Inv ==
    /\ (iteration = max_iterations - 1 /\ Verified /\ ~verification.passed
          /\ ~verification.should_escalate) =>
            /\ state \in {"ITERATING", "MAX_ITERATIONS"}
            /\ response.status \in {"NONE", "MAX_ITERATIONS"}
    /\ (state = "MAX_ITERATIONS") =>
            /\ iteration = max_iterations - 1
            /\ Verified /\ ~verification.complete /\ ~verification.should_escalate
            /\ response.status = "MAX_ITERATIONS"
            /\ Len(response.trace) = max_iterations
            /\ \A i \in 1..max_iterations : response.trace[i].iteration = i - 1

\* C6 amended: when the verification of the last allowed iteration is
\* failing and no failed check is critical, the only step left returns
\* status MAX_ITERATIONS with the trace of all max_iterations iterations.
C6_NonCriticalFailureIsMaxIterations ==
    /\ [](C6_Inv)
    /\ [][(state = "ITERATING" /\ iteration = max_iterations - 1) =>
            (state' = "MAX_ITERATIONS" /\ response'.status = "MAX_ITERATIONS")]_vars

C6_Witness ==
    /\ state = "MAX_ITERATIONS"
    /\ iteration = max_iterations - 1
    /\ Verified /\ ~verification.passed /\ ~verification.should_escalate
    /\ response.status = "MAX_ITERATIONS"
    /\ Len(response.trace) = max_iterations

\* C7: no exception raised while a plan step is executed leaves
\* execute_plan or execute_task; the loop goes on to Verify.
C7_NoExceptionLeavesAct ==
    ~(execution_result.kind = "raise" /\ state = "UNCAUGHT")

\* C8: once a critical step has failed, no later step of the plan is
\* started and execute_plan returns an ExecutionResult with status FAILED.
C8_CriticalFailureAborts ==
    (x_result.kind # "none") =>
        \A k \in 1..x_result.calls :
            (x_steps[k].critical /\ x_outcomes[k] # "OK") =>
                /\ x_result.calls = k
                /\ x_result.kind = "return"
                /\ x_result.status = "FAILED"

\* C9: check_budget answers OVER_ALLOCATION, with compaction as the action,
\* to every request for which used + requested exceeds the total ceiling.
C9_OverCeilingRejected ==
    (last_check.status # "NONE"
        /\ last_check.used + last_check.requested > total_budget) =>
            (last_check.status = "OVER_ALLOCATION"
                /\ last_check.action = "TRIGGER_COMPACTION")

\* C10: when a Gather phase starts after usage rose above 80% of the total
\* ceiling, exactly one compaction attempt was made since that crossing.
C10_CompactionBeforeGather ==
    (mem_phase = "GATHER" /\ crossed_80) => compaction_attempts = 1

\* the plan of the approval flow has been classified
Classified == h_state \notin {"START", "PLANNED"}

\* the tier of the first row of the decision table that matches, 0 if no
\* row does
FirstMatchingRow(action) ==
    IF action.impact = "LOW" /\ action.reversibility = "FULL" THEN 1
    ELSE IF action.impact = "MEDIUM" /\ action.reversibility \in {"FULL", "PARTIAL"}
            /\ action.sensitivity # "RESTRICTED" THEN 2
    ELSE IF action.impact = "HIGH" THEN 3
    ELSE IF action.reversibility = "NONE" /\ action.sensitivity = "RESTRICTED" THEN 4
    ELSE 0

\* C11: for every action that matches a row of the decision table, the tier
\* computed by classify_action is the tier of the first matching row.
C11_TierOfFirstMatchingRow ==
    (Classified /\ FirstMatchingRow(h_plan.action) # 0) =>
        h_tier = FirstMatchingRow(h_plan.action)

\* C12: raising the data sensitivity of the classified action, impact and
\* reversibility unchanged, never gives a lower tier.
C12_TierMonotoneInSensitivity ==
    Classified =>
        \A i, j \in DOMAIN SensitivityLevels :
            (i < j /\ SensitivityLevels[i] = h_plan.action.sensitivity) =>
                classify_action([h_plan.action EXCEPT !.sensitivity = SensitivityLevels[j]])
                    >= h_tier

\* C13: an action on RESTRICTED (PHI) data is classified tier 3 or tier 4,
\* whatever its impact and reversibility.
C13_RestrictedIsTier3Or4 ==
    (Classified /\ h_plan.action.sensitivity = "RESTRICTED") => h_tier \in {3, 4}

\* C14: a plan whose action is irreversible (reversibility NONE) is of tier
\* 3 or 4, and none of its steps is executed unless the approval interface
\* answered APPROVED before.
C14_IrreversibleNeedsApproval ==
    (plan.reversibility = "NONE" /\ execution_result.calls > 0) =>
        (plan.tier \in {3, 4} /\ approval_response = "APPROVED")

\* the classification half of C14: an irreversible action is of tier 3 or 4
C14_IrreversibleIsTier3Or4 ==
    (Classified /\ h_plan.action.reversibility = "NONE") =>
        (h_tier \in {3, 4} /\ should_request_approval(h_tier))

\* the user's decision has been handled
Handled == h_state \notin {"START", "PLANNED", "NEEDS_APPROVAL", "AUTO_APPROVED",
                            "RESPONDED"}

\* C15 as stated: once a DENIED response has been handled the task is in
\* ESCALATED, the denial reason is recorded and the denied plan was not
\* executed.
C15_DenialEscalates ==
    (h_response.decision = "DENIED" /\ Handled) =>
        /\ h_state = "ESCALATED"
        /\ [iteration |-> h_plan.iteration, reason |-> h_response.reason] \in h_denials
        /\ h_plan.iteration \notin h_executed

C15_Inv ==
    (h_response.decision = "DENIED" /\ Handled) =>
        /\ h_tier \in {3, 4}
        /\ h_state = "DENIAL_HANDLED"
        /\ h_response.reason \in DenialReasons
        /\ [iteration |-> h_plan.iteration, reason |-> h_response.reason] \in h_denials
        /\ h_plan.iteration \notin h_executed

\* C15 amended: once a DENIED response has been handled the denial is
\* logged with its reason and the flow rests in the denial handling (no
\* ESCALATED status is set); the denied plan is not executed, and no step
\* follows the denial: the action is not requested or run again.
C15_DenialLoggedNeverExecuted ==
    /\ [](C15_Inv)
    /\ [][h_response.decision = "DENIED" =>
            (h_state' = "DENIAL_HANDLED" /\ h_executed' = h_executed
                /\ h_plan' = h_plan)]_vars
    /\ [][h_state # "DENIAL_HANDLED"]_vars

\* the denial of a plan that came out of a modification
C15_Witness ==
    /\ h_state = "DENIAL_HANDLED"
    /\ h_response.decision = "DENIED"
    /\ h_plan.iteration = 1
    /\ h_denials = {[iteration |-> 1, reason |-> "not now"]}
    /\ h_executed = {}

C16_Inv ==
    /\ h_executed \subseteq {h_plan.iteration}
    /\ h_plan.iteration >= 0 =>
          /\ Len(h_plan.requirements) = h_plan.iteration
          /\ h_plan.parent = h_plan.iteration - 1
    /\ (h_response.decision = "MODIFY") => (h_tier = 3 /\ h_executed = {})

\* C16: when the response to a tier 3 proposal is MODIFY, the next step
\* re-plans: the new plan has the modification appended to the requirements
\* and iteration = the previous plan's iteration + 1, it goes back to
\* evaluation, and the plan the user modified is never executed.
C16_ModifyReplans ==
    /\ [](C16_Inv)
    /\ [][(h_state = "RESPONDED" /\ h_response.decision = "MODIFY") =>
            /\ h_state' = "PLANNED"
            /\ h_plan'.iteration = h_plan.iteration + 1
            /\ h_plan'.parent = h_plan.iteration
            /\ h_plan'.requirements =
                  Append(h_plan.requirements, h_response.modifications)
            /\ h_executed' = h_executed]_vars

\* the modified plan was approved and executed; the original was not
C16_Witness ==
    /\ h_state = "EXECUTED"
    /\ h_plan.iteration = 1
    /\ h_plan.requirements = <<"send to legal instead">>
    /\ h_response.decision = "APPROVED"
    /\ h_executed = {1}

\* C17: compact_working_memory either returns a compact memory that holds
\* every critical item of the working memory, or raises CompactionError; it
\* never returns with a critical item missing.
C17_CompactKeepsCriticalOrFails ==
    /\ c_result.kind \in {"none", "return", "raise"}
    /\ (c_result.kind = "return") => c_memory.critical \subseteq c_result.critical_data
    /\ (c_result.kind = "raise") =>
          /\ c_result.exc = "CompactionError"
          /\ c_result.missing_items # {}
          /\ c_result.missing_items \subseteq c_memory.critical

\* a compaction that dropped a plain item and kept both critical ones
C17_Witness ==
    /\ c_result.kind = "return"
    /\ c_memory.items = {1, 2, 3}
    /\ c_memory.critical = {1, 2}
    /\ c_result.critical_data = {1, 2}

\* C18: when the compaction of a Gather phase fails with CompactionError,
\* the task ends ESCALATED and the error does not leave execute_task.
C18_CompactionErrorEscalates ==
    (gather_error = "CompactionError") =>
        (state = "ESCALATED" /\ response.status = "ESCALATED")

\* C19: a step whose tool call timed out yields a StepResult with status
\* FAILED and error ToolTimeoutError, and unless that step is critical the
\* next step of the plan is still started.
C19_TimeoutIsFailedStep ==
    (x_result.kind # "none") =>
        \A k \in 1..x_result.calls :
            (x_outcomes[k] \in Timeouts) =>
                /\ x_result.kind = "return"
                /\ x_result.steps[k].status = "FAILED"
                /\ x_result.steps[k].error = "ToolTimeoutError"
                /\ (~x_steps[k].critical /\ k < Len(x_steps)) => x_result.calls > k

C20_Inv ==
    /\ (execution_result.status = "FAILED" /\ Verified) =>
          /\ ~verification.checks[2].passed
          /\ ~verification.complete
          /\ state # "COMPLETE"
          /\ response.status \notin {"SUCCESS", "UNSET"}
          /\ ~verification.should_escalate => state \in {"ITERATING", "MAX_ITERATIONS"}
    /\ (state \in {"ACTING", "VERIFYING", "ITERATING"}) =>
          (plan.iteration = iteration /\ plan.parent = iteration - 1)

C21_Inv ==
    /\ Len(trace) = IF state \in {"GATHERING", "PLANNING", "ACTING", "VERIFYING",
                                  "UNCAUGHT"}
                    THEN iteration ELSE iteration + 1
    /\ \A i \in 1..Len(trace) :
          trace[i].iteration = i - 1 /\ trace[i].plan_iteration = i - 1
    /\ state \in {"COMPLETE", "ESCALATED", "MAX_ITERATIONS"} => response.trace = trace

C23_NoRepeatOrEscalated ==
    a_state \notin {"IDLE", "PLANNING"} =>
       IF a_alternatives \ a_failed = {}
       THEN a_state = "ESCALATED"
       ELSE /\ a_state = "ACTING"
            /\ \A i \in 1..Len(a_plan.steps) : a_plan.steps[i] \notin a_failed

\* C24: whenever the confidence score of a verification is below the
\* threshold of 0.7 the agent escalates: the decision taken on that
\* verification is ESCALATED, not completion and not another iteration.
C24_LowConfidenceEscalates ==
    (v_result.checks # <<>> /\ v_result.confidence_score < confidence_threshold) =>
       Decision(v_result) = "ESCALATED"

\* C26: verify reports passed exactly when all six checks passed, and
\* complete exactly when it passed and the plan has no remaining steps.
C26_PassedAndComplete ==
    (v_result.checks # <<>>) =>
       /\ v_result.passed <=> \A i \in 1..NumChecks : v_checks[i].passed
       /\ v_result.complete <=> (v_result.passed /\ ~v_more)

\* all six checks passed while the plan has steps left
C26_Witness ==
    /\ v_result.checks # <<>>
    /\ \A i \in 1..NumChecks : v_checks[i].passed
    /\ v_more
    /\ v_result.passed /\ ~v_result.complete

C28_Inv ==
    (v_second.checks # <<>>) => v_second = v_result

C29_Inv ==
    /\ t_call.result.tool_called =>
          /\ t_call.authorized
          /\ t_call.tool_spec.requires_consent => t_call.granted
          /\ validate_parameters(t_call.parameters)
    /\ (t_call.result.kind # "NONE" /\ ~t_call.authorized) =>
          /\ t_call.result.kind = "raise"
          /\ t_call.result.exc = "UnauthorizedError"
          /\ ~t_call.result.tool_called
    /\ (t_call.authorized /\ t_call.tool_spec.requires_consent /\ ~t_call.granted) =>
          /\ t_call.result.kind = "raise"
          /\ t_call.result.exc = "ConsentDeniedError"
          /\ ~t_call.result.tool_called

C29_NoCallWithoutChecks ==
    /\ [](C29_Inv)
    /\ [][(t_call'.result.kind = "raise"
             /\ t_call'.result.exc \in {"UnauthorizedError", "ConsentDeniedError",
                                        "ValidationError"})
            => t_cache' = t_cache]_vars

\* a tool that requires consent was called after consent was granted
C29_Witness ==
    /\ t_call.result.tool_called
    /\ t_call.authorized
    /\ t_call.tool_spec.requires_consent /\ t_call.granted
    /\ t_call.result.status = "SUCCESS"

\* C30: execute returns a result from the cache only if the tool is
\* cacheable, an earlier call with the same tool and parameters succeeded
\* and passed result verification and the entry's time-to-live has not
\* elapsed; results of failed calls are never stored.
C30_CacheHoldsSuccessesOnly ==
    /\ t_call.result.from_cache =>
          /\ t_call.tool_spec.cacheable
          /\ t_call.result.status = "SUCCESS"
          /\ t_call.result.mcp_status = "SUCCESS"
          /\ LET key == generate_cache_key(t_call.tool_spec, t_call.parameters)
             IN  t_call.at < t_cache[key].expires
    /\ \A k \in CacheKeys :
          t_cache[k] # NoEntry =>
             t_cache[k].status = "SUCCESS" /\ t_cache[k].mcp_status = "SUCCESS"

\* C34: execute_task always terminates: it runs at most max_iterations
\* iterations and ends in exactly one of the states COMPLETE, ESCALATED and
\* MAX_ITERATIONS, after which no further phase of the task runs.
C34_EndsInTerminalState ==
    /\ [](iteration < max_iterations)
    /\ <>(state \in {"COMPLETE", "ESCALATED", "MAX_ITERATIONS"})
    /\ [][(state \in {"COMPLETE", "ESCALATED", "MAX_ITERATIONS"})
            => (orch_vars' = orch_vars)]_vars

\* the decision of execute_task with the two tests in the other order
Decision_escalateFirst(v) ==
    IF v.should_escalate THEN "ESCALATED"
    ELSE IF v.complete THEN "COMPLETE"
    ELSE "ITERATING"

\* C35: no VerificationResult has both complete and should_escalate set, so
\* the order in which execute_task tests the two flags does not change the
\* decision.
C35_CompleteExcludesEscalate ==
    (v_result.checks # <<>>) =>
       /\ ~(v_result.complete /\ v_result.should_escalate)
       /\ Decision(v_result) = Decision_escalateFirst(v_result)

\* a complete verification in which a critical check passed
C35_Witness ==
    /\ v_result.complete
    /\ ~v_result.should_escalate
    /\ \E i \in 1..NumChecks : v_result.checks[i].critical
    /\ Decision(v_result) = "COMPLETE"

\* C36: execute_plan returns status FAILED exactly when a critical step
\* failed; when only non-critical steps fail every step of the plan is
\* still executed in order and the result has status SUCCESS with one
\* StepResult per plan step.
C36_FailedIffCriticalStepFailed ==
    (x_result.kind # "none") =>
       LET failed_steps == {k \in 1..x_result.calls : x_outcomes[k] # "OK"}
       IN  /\ (x_result.kind = "return" /\ x_result.status = "FAILED")
                <=> (\E k \in failed_steps : x_steps[k].critical)
           /\ (failed_steps # {} /\ \A k \in failed_steps : ~x_steps[k].critical) =>
                 /\ x_result.kind = "return"
                 /\ x_result.status = "SUCCESS"
                 /\ x_result.calls = Len(x_steps)
                 /\ Len(x_result.steps) = Len(x_steps)

\* C37: a StepResult has status SUCCESS only if the tool call behind it
\* returned a ToolResult with status SUCCESS; a call that ended with an MCP
\* error or a timeout never yields a StepResult with status SUCCESS.
C37_StepSuccessMeansToolSuccess ==
    (x_result.kind = "return") =>
       \A k \in 1..Len(x_result.steps) :
          (x_result.steps[k].status = "SUCCESS") =>
             /\ x_result.steps[k].tool_status = "SUCCESS"
             /\ x_outcomes[k] \notin ({"MCPError"} \cup Timeouts)

\* C31: when two writers each do check_budget followed by allocate on the
\* same budget, every check-then-write pair takes effect atomically: no two
\* requests are approved against the same free capacity, and what was
\* approved still fits below the warning threshold when it is allocated.
C31_CheckThenAllocateAtomic ==
    /\ \A w1, w2 \in Writers :
          (w1 # w2 /\ w_check[w1].status = "APPROVED"
                   /\ w_check[w2].status = "APPROVED") =>
             w_check[w1].used # w_check[w2].used
    /\ \A w \in Writers :
          (w_pc[w] = "done" /\ w_check[w].status = "APPROVED") =>
             ~Above80(w_used, total_budget)


OpenStreams == {k \in Streams : s_streams[k].ready = "OPEN"}

StreamEndings == {"complete", "error_event", "connection_error"}

\* C38: in useAgentStream at most one EventSource is open, isLoading is true
\* exactly when one is open (and then it is the one eventSourceRef holds),
\* and a stream that ends by complete, by an error event or by a connection
\* error is closed and leaves isLoading false and no open connection
C38_Inv ==
    /\ Cardinality(OpenStreams) <= 1
    /\ s_isLoading <=> (OpenStreams # {})
    /\ OpenStreams = (IF s_ref = 0 THEN {} ELSE {s_ref})
    /\ \A k \in Streams :
          s_streams[k].ended # "NONE" => s_streams[k].ready = "CLOSED"

C38_OneOpenStreamIffLoading ==
    /\ []C38_Inv
    /\ [][\A k \in Streams :
             (s_streams[k].ended = "NONE" /\ s_streams'[k].ended \in StreamEndings)
                => (~s_isLoading' /\ s_ref' = 0 /\ OpenStreams' = {})]_vars

\* a second message was sent while the first stream was open, and the second
\* stream has ended by a connection error
C38_Witness ==
    /\ s_streams[1].ended = "client"
    /\ s_streams[2].ended = "connection_error"
    /\ ~s_isLoading
    /\ Len(s_messages) >= 2

\* C39: every user message whose stream ended by a complete event or by a
\* connection error is followed in messages by exactly one assistant message,
\* which carries the response content when a response event was received
C39_OneAssistantMessagePerEndedStream ==
    \A k \in Streams :
       s_streams[k].ended \in {"complete", "connection_error"} =>
          \A i \in 1..Len(s_messages) :
             s_messages[i] = UserMessage(k) =>
                /\ i < Len(s_messages)
                /\ s_messages[i + 1].role = "assistant"
                /\ (i + 2 <= Len(s_messages) => s_messages[i + 2].role = "user")
                /\ (s_streams[k].assistantResponse # "" =>
                       s_messages[i + 1].content = s_streams[k].assistantResponse)

\* C33: after a connection error the stream is not closed, so that the
\* EventSource reconnects
C33_ReconnectsAfterConnectionError ==
    \A k \in Streams :
       s_streams[k].ended = "connection_error" => s_streams[k].ready # "CLOSED"

\* C32: the agent service processes at most one message of the session at a
\* time, also when a message is sent while an earlier one is being processed
C32_OneMessageAtATime == Cardinality(s_running) <= 1


\* C40: while an upload request of a dropzone is in flight the dropzone's
\* isUploading flag is true; the delayed reset of an earlier upload does not
\* clear the state of a later upload that is still running
C40_UploadingWhileInFlight ==
    \A z \in Dropzones : u_inflight[z] > 0 => u_state[z].isUploading

====
